---- MODULE Spec2Model ----
(***************************************************************************)
(* PDF summarizer: ingestion pipeline with a content-addressed cache       *)
(* (routes.py), the retention cleanup job (cleanup.py) and the cleanup     *)
(* scheduler life cycle (extensions.py, factory.py).                       *)
(*                                                                         *)
(* The database is modelled as two sets of committed rows (uploads,        *)
(* summaries); each request handler owns the rows it has flushed but not   *)
(* yet committed.  The upload directory is a function from storage paths   *)
(* to the bytes stored there.  Time is a single clock: one tick stands     *)
(* for one day in the retention arithmetic and for one second in the       *)
(* timestamp suffix of a saved file name.                                  *)
(*                                                                         *)
(* Spec runs one handler of route / at a time next to the cleanup job and  *)
(* the process life cycle; the handlers are the entries of req, so a       *)
(* specification with concurrent handlers only needs a longer req.  In     *)
(* Spec the client is a returning one (its session carries an identifier), *)
(* the prompt templates are the two active ones of Init, the files all     *)
(* have the accepted extension and the rate limiter is switched off.       *)
(* SpecCache applies check_cache to every small database.                  *)
(* SpecSession adds new clients and the listing routes; SpecRoutes files  *)
(* of other extensions and the download route; SpecPrompts the prompt      *)
(* template forms; SpecDelete the deletion of a template next to the       *)
(* ingestion; SpecLimit the rate limiter of route /; SpecConc two          *)
(* handlers of route / at the same time; SpecRetention the server of Spec  *)
(* on the database of an earlier run; SpecEdit the edit form of a template *)
(* next to the ingestion; SpecShare two clients reading each other's       *)
(* results.                                                                *)
(***************************************************************************)
EXTENDS Integers, Sequences, FiniteSets, TLC

\* ------------------------------------------------------------------ bounds
MaxTime == 1
MaxUploads == 2
MaxFiles == 2
RetentionDays == 0

\* ------------------------------------------------------- value universes
Names == {"doc"}
Contents == {"a", "b"}
Templates == {1, 2}
NoFile == "none"
Paths == Names \X (0..MaxTime)
\* The extensions of the submitted file names (lower-cased).
Exts == {"pdf", "txt"}
Files == [name : Names, ext : Exts, content : Contents]
\* The files that pass the extension test of the file loop.
PdfFiles == {f \in Files : f.ext = "pdf"}

\* uploads, summaries, templates: the committed rows of the three tables;
\* disk: the upload directory; req: the handlers of POST /; cookie: the
\* session each client carries; limiter: the storage of the rate limiter;
\* resp: the last response of the short routes; tp: the handlers of the
\* prompt template forms; cl: the record of the last cleanup run.
VARIABLES uploads, summaries, disk, now, nextId, req, lookup,
          cl, scheduler, alive,
          templates, cookie, limiter, resp, tp

\* The variables of the sessions, the limiter, the short routes and the
\* prompt template forms.
webVars == <<templates, cookie, limiter, resp, tp>>

vars == <<uploads, summaries, disk, now, nextId, req, lookup,
          cl, scheduler, alive, webVars>>

\* ------------------------------------------------------------ collaborators
\* SHA-256 of the bytes: distinct contents have distinct digests.
Digest(c) == <<"sha256", c>>

\* utils.calculate_file_hash: hashes the bytes found at the path.
calculate_file_hash(d, path) == Digest(d[path])

\* os.path.getsize of the bytes stored.
FileSize(c) == CASE c = "a" -> 1 [] c = "b" -> 2 [] OTHER -> 0

\* utils.extract_text_from_pdf: the outcomes of the call on the bytes c.  The
\* PDF reader may raise on any file (it wraps every exception); a missing
\* file always raises.
ExtractOutcomes(c) == IF c = NoFile THEN {FALSE} ELSE {TRUE, FALSE}

\* The text and the page count that a successful extraction returns.
Extracted(c) == [text |-> <<"text", c>>,
                 page_count |-> CASE c = "a" -> 1 [] c = "b" -> 3 [] OTHER -> 0]
NoText == [text |-> <<"text", NoFile>>, page_count |-> 0]

\* len(text) of an extracted text.
CharCount(text) == CASE text[2] = "a" -> 10 [] text[2] = "b" -> 20 [] OTHER -> 0

\* The prompt texts: PromptText(t) is the text template t has in Init.
PromptText(t) == <<"prompt", t>>

\* claude_service.summarize_with_claude: the text returned for (text, prompt).
SummaryText(c, p) == <<"summary", c, p>>

\* utils.save_uploaded_file: {secure name}_{timestamp}{ext}.
UniquePath(name, t) == <<name, t>>

\* ------------------------------------------------------------------- rows
Upload(id, path, hash, date, cached, sid) ==
    [id |-> id, file_path |-> path, file_hash |-> hash,
     upload_date |-> date, is_cached |-> cached, session_id |-> sid]

Summary(id, uid, tpl, text, pages, chars) ==
    [id |-> id, upload_id |-> uid, prompt_template_id |-> tpl, summary_text |-> text,
     page_count |-> pages, char_count |-> chars]

PromptTemplate(id, name, text, active) ==
    [id |-> id, name |-> name, prompt_text |-> text, is_active |-> active]

UploadIds(U) == {u.id : u \in U}

\* Upload.summaries relationship.
SummariesOf(S, uid) == {s \in S : s.upload_id = uid}

\* ------------------------------------------------------------ check_cache
\* Variant: any upload with the digest is taken, with or without a summary.
CacheMatchesAnyUpload(U, S, h, t) == {u \in U : u.file_hash = h}

\* The uploads that check_cache can return for (file_hash, template id):
\* the query has no ORDER BY and summaries[0] is the first row of an
\* unordered relationship, so any upload with the digest and a summary of
\* the template may be the one found.
CacheMatches(U, S, h, t) ==
    {u \in U : /\ u.file_hash = h
               /\ \E s \in SummariesOf(S, u.id) : s.prompt_template_id = t}

\* None can be returned when every upload with the digest may be passed over:
\* it has no summary, or its first summary may be one of another template.
CacheMayMiss(U, S, h, t) ==
    \A u \in U : u.file_hash = h =>
        \/ SummariesOf(S, u.id) = {}
        \/ \E s \in SummariesOf(S, u.id) : s.prompt_template_id # t

\* Variant: a summary counts only if it was made with the prompt text that
\* the template has now.
CheckCacheCurrentPrompt(U, S, h, t) ==
    LET S2 == {s \in S : \E p \in templates :
                            p.id = t /\ s.summary_text[3] = p.prompt_text}
    IN {u.id : u \in CacheMatches(U, S2, h, t)}
          \cup (IF CacheMayMiss(U, S2, h, t) THEN {0} ELSE {})

\* Variant: only uploads that were not served from the cache are looked at.
CheckCacheOriginalsOnly(U, S, h, t) ==
    {u.id : u \in CacheMatches({x \in U : ~x.is_cached}, S, h, t)}
        \cup (IF CacheMayMiss({x \in U : ~x.is_cached}, S, h, t) THEN {0} ELSE {})

\* The set of ids check_cache may return; 0 stands for None.
check_cache(U, S, h, t) ==
    {u.id : u \in CacheMatches(U, S, h, t)}
        \cup (IF CacheMayMiss(U, S, h, t) THEN {0} ELSE {})

\* ---------------------------------------------------------------- sessions
\* The clients: one browser each, at its own address.  A client sends its
\* next request after the response to the previous one.
Clients == DOMAIN cookie

\* A session that carries no identifier.
NoSession == [session_id |-> 0, permanent |-> FALSE]

\* Variant: an identifier is minted on every call.
AlwaysNewSessionId(sess, fresh) == [session_id |-> fresh, permanent |-> TRUE]

\* routes.get_or_create_session_id: the session after the call; the value
\* returned is its session_id.
get_or_create_session_id(sess, fresh) ==
    IF sess.session_id = 0
    THEN [session_id |-> fresh, permanent |-> TRUE]
    ELSE sess

\* uuid.uuid4(): an identifier that no session and no row carries.
SessionIdsInUse ==
    {cookie[c].session_id : c \in Clients}
        \cup {u.session_id : u \in uploads}
        \cup {req[r].session.session_id : r \in DOMAIN req}
uuid4 == CHOOSE i \in 1..(Cardinality(SessionIdsInUse) + 1) : i \notin SessionIdsInUse

\* ------------------------------------------------------------ rate limiter
\* @limiter.limit("10 per hour") on route /.
UploadLimit == 10

\* The number of clock ticks of the limiter in one hour.
HourTicks == 2

\* The counter of one client address: the hits of the current window and the
\* ticks since the window began; count 0 is no window.
NoWindow == [count |-> 0, age |-> 0]

\* Variant: the hit is not counted.
LimiterHitUncounted(l, c) == l

\* One hit of route / by the address of c (fixed window: the first hit
\* opens the window, every hit is counted).
LimiterHit(l, c) ==
    IF l.enabled
    THEN [l EXCEPT !.win[c].count = IF @ > UploadLimit THEN @ ELSE @ + 1]
    ELSE l

\* The request is served when the limiter is off or the hit stays within the
\* limit.
Admitted(l, c) == ~l.enabled \/ LimiterHit(l, c).win[c].count <= UploadLimit

\* The limiter after a request that is served: the hit, and the request
\* entered in the history of the requests served since the current window
\* opened.
LimiterServe(l, c) ==
    IF l.enabled
    THEN [LimiterHit(l, c) EXCEPT !.inwin[c] = @ + 1]
    ELSE l

\* One tick of the limiter clock: a window that is HourTicks old expires
\* (the key of the address leaves the storage, and the history of the
\* window ends with it), the others grow older.
LimiterAge(l) ==
    [l EXCEPT !.win = [c \in DOMAIN l.win |->
                          IF l.win[c].count = 0 \/ l.win[c].age + 1 >= HourTicks
                          THEN NoWindow
                          ELSE [l.win[c] EXCEPT !.age = @ + 1]],
              !.inwin = [c \in DOMAIN l.win |->
                          IF l.win[c].count = 0 \/ l.win[c].age + 1 >= HourTicks
                          THEN 0 ELSE l.inwin[c]]]

\* ------------------------------------------------------- request handlers
\* The handlers of route / that the server runs: one per entry of req.
Handlers == DOMAIN req

IdleReq == [pc |-> "idle", todo |-> 0, tpl |-> 1, prompt |-> PromptText(0),
            client |-> 0, session |-> NoSession, first |-> FALSE, skipped |-> 0,
            pu |-> {}, ps |-> {}, cur |-> 0, ex |-> NoText, log |-> <<>>,
            created |-> {}, outcome |-> "none", flash |-> <<>>]

\* Client c has no request in flight.
ClientFree(c) == \A q \in Handlers : req[q].client # c

\* The rows a handler's session sees: committed rows and its own flushed rows.
ViewU(r) == uploads \cup req[r].pu
\* Variant: the summaries the handler has added but not flushed are not seen.
ViewSCommitted(r) == summaries
ViewS(r) == summaries \cup req[r].ps

\* routes.py:95  PromptTemplate.query.filter_by(is_active=True)
ActivePrompts(T) == {p \in T : p.is_active}

\* teardown_appcontext handler of factory.create_app: runs whenever an
\* application context ends and shuts the scheduler down.
shutdown_extensions(s) == "stopped"

\* utils.py:33  the exception extract_text_from_pdf raises: its message
\* quotes the exception of the PDF reader.
ExtractError == <<"Error reading PDF", "reader exception">>

\* claude_service.py:146  the exception summarize_with_claude raises: its
\* message quotes the exception of the API call.
ClaudeError == <<"Error with Claude API", "api exception">>

\* Variant: the message flashed does not quote the exception.
ErrorFlashGeneric(e) == <<"Error processing files">>

\* routes.py:235  flash(f"Error processing files: {str(e)}", "error")
ErrorFlash(e) == <<"Error processing files">> \o e

\* routes.py:220-223  the message flashed after the commit.
SuccessFlash(rq) == <<"Successfully processed", Cardinality(rq.created)>>

\* The handler returns: its loop variables go away; the ids it created, its
\* outcome, the messages it flashed and, when it failed, the calls it made
\* remain as history.
Finished(rq, result) ==
    [IdleReq EXCEPT !.created = rq.created, !.outcome = result,
                    !.skipped = rq.skipped,
                    !.flash = CASE result = "failed" -> rq.flash
                                [] result = "ok" -> SuccessFlash(rq)
                                [] OTHER -> <<>>,
                    !.log = IF result = "failed" THEN rq.log ELSE <<>>]

\* The response reaches the client, which keeps the session it carries.
StoreSession(ck, rq) == [ck EXCEPT ![rq.client] = rq.session]

\* Variant: the cache-hit branch leaves the flag at its default.
HitUploadUnflagged(id, path, h, date, sid) == Upload(id, path, h, date, FALSE, sid)

\* routes.index, cache-hit branch: the upload row added.
HitUpload(id, path, h, date, sid) == Upload(id, path, h, date, TRUE, sid)

\* Variant: the cache-miss branch sets the flag.
MissUploadFlagged(id, path, h, date, sid) == Upload(id, path, h, date, TRUE, sid)

\* routes.index, cache-miss branch: the upload row added.
MissUpload(id, path, h, date, sid) == Upload(id, path, h, date, FALSE, sid)

\* Variant: the summary of a cache hit is a row without the cached counts.
HitSummaryNoCounts(id, uid, tpl, cached) ==
    Summary(id, uid, tpl, cached.summary_text, 0, 0)

\* Variant: the summary of a cache hit is attached to the cached upload.
HitSummaryOnCached(id, uid, tpl, cached) ==
    Summary(id, cached.upload_id, tpl, cached.summary_text, cached.page_count,
            cached.char_count)

\* routes.index, cache-hit branch: the summary row added for the new upload,
\* copied from the cached summary.
HitSummary(id, uid, tpl, cached) ==
    Summary(id, uid, tpl, cached.summary_text, cached.page_count, cached.char_count)

\* Variant: the summarizer is called with the prompt text of template 1.
MissPromptDefault(rq) == PromptText(1)

\* routes.index, cache-miss branch: the prompt text passed to the summarizer
\* is that of the template selected in the form.
MissPrompt(rq) == rq.prompt

\* Variant: the miss branch goes straight to the summarizer.
AfterMissSkipExtract == "summarize"

\* routes.index, cache-miss branch: the stage that follows the flush of the
\* upload row.
AfterMiss == "extract"

\* routes.index: the call that follows a successful extraction.
AfterExtract == "summarize"

\* Variant: the except branch commits what was flushed.
AfterRollbackKeep(committed, flushed) == committed \cup flushed

\* db.session.rollback() in the except branch of routes.index: the flushed
\* rows are discarded, the committed rows stay.
AfterRollback(committed, flushed) == committed

\* db.session.commit(): the flushed rows become committed rows.
AfterCommit(committed, flushed) == committed \cup flushed

\* POST / by client c with a form that validates (its first file has the
\* accepted extension), carrying n files and the selected template t, which
\* is one of the active templates: the limiter counts the request, the
\* session identifier is read or minted, the template is loaded and the
\* handler enters the file loop.  The files are drawn as the loop reads them.
Submit(r, c, n, t) ==
    /\ alive
    /\ req[r].pc = "idle"
    /\ ClientFree(c)
    /\ Admitted(limiter, c)
    /\ \E p \in ActivePrompts(templates) : p.id = t
    /\ LET p == CHOOSE x \in templates : x.id = t
       IN req' = [req EXCEPT ![r] =
                    [IdleReq EXCEPT !.pc = "loop", !.todo = n, !.tpl = t,
                                    !.prompt = p.prompt_text,
                                    !.client = c,
                                    !.session = get_or_create_session_id(cookie[c], uuid4),
                                    !.first = TRUE,
                                    !.outcome = "running"]]
    /\ limiter' = LimiterServe(limiter, c)
    /\ UNCHANGED <<uploads, summaries, disk, now, nextId, lookup,
                   cl, scheduler, alive, templates, cookie, resp, tp>>

\* One iteration of the file loop, for a file with the accepted extension, up
\* to the cache decision: save the file, hash it, look it up; on a hit add
\* the upload and the copied summary, on a miss flush the new upload and go on
\* to extraction.
ProcessFile(r, f) ==
    /\ alive
    /\ req[r].pc = "loop"
    /\ req[r].todo > 0
    /\ f.ext = "pdf"
    /\ nextId <= MaxUploads
    /\ LET path == UniquePath(f.name, now)
           d2   == [disk EXCEPT ![path] = f.content]
           h    == calculate_file_hash(d2, path)
           sid  == req[r].session.session_id
       IN /\ disk' = d2
          /\ \E c \in check_cache(ViewU(r), ViewS(r), h, req[r].tpl) :
               IF c # 0
               THEN LET cached == CHOOSE s \in SummariesOf(ViewS(r), c) :
                                      s.prompt_template_id = req[r].tpl
                    IN /\ req' = [req EXCEPT
                              ![r].pu = @ \cup {HitUpload(nextId, path, h, now, sid)},
                              ![r].ps = @ \cup {HitSummary(nextId, nextId, req[r].tpl,
                                                           cached)},
                              ![r].created = @ \cup {nextId},
                              ![r].first = FALSE,
                              ![r].todo = @ - 1]
               ELSE    req' = [req EXCEPT
                              ![r].pu = @ \cup {MissUpload(nextId, path, h, now, sid)},
                              ![r].created = @ \cup {nextId},
                              ![r].cur = nextId,
                              ![r].first = FALSE,
                              ![r].pc = AfterMiss]
          /\ nextId' = nextId + 1
    /\ UNCHANGED <<uploads, summaries, now, lookup, cl, scheduler, alive, webVars>>

\* One iteration of the file loop for a file whose name does not end in
\* .pdf: the warning is flashed and the loop continues.  The first file of a
\* form that validated has the accepted extension.
SkipFile(r, f) ==
    /\ alive
    /\ req[r].pc = "loop"
    /\ req[r].todo > 0
    /\ f.ext # "pdf"
    /\ ~req[r].first
    /\ req' = [req EXCEPT ![r].skipped = @ + 1, ![r].todo = @ - 1]
    /\ UNCHANGED <<uploads, summaries, disk, now, nextId, lookup,
                   cl, scheduler, alive, webVars>>

\* Variant: the exception is handled inside the loop: the file is dropped
\* and the loop goes on with the next one.
FailRequestContinue(r, rq, e) ==
    /\ req' = [req EXCEPT ![r] =
                 [rq EXCEPT !.pu = {u \in @ : u.id # rq.cur},
                            !.cur = 0, !.ex = NoText,
                            !.todo = @ - 1, !.pc = "loop"]]
    /\ UNCHANGED <<uploads, summaries, cookie, scheduler>>

\* except Exception as e: rollback, flash, redirect; the request ends and
\* its application context is torn down.
FailRequest(r, rq, e) ==
    /\ req' = [req EXCEPT ![r] = Finished([rq EXCEPT !.flash = ErrorFlash(e)],
                                          "failed")]
    /\ uploads' = AfterRollback(uploads, rq.pu)
    /\ summaries' = AfterRollback(summaries, rq.ps)
    /\ cookie' = StoreSession(cookie, rq)
    /\ scheduler' = shutdown_extensions(scheduler)

\* extract_text_from_pdf(file_path) on the miss path.
Extract(r) ==
    /\ alive
    /\ req[r].pc = "extract"
    /\ LET u  == CHOOSE x \in req[r].pu : x.id = req[r].cur
           rq == [req[r] EXCEPT !.log = Append(@, <<"extract", u.id>>)]
       IN \E ok \in ExtractOutcomes(disk[u.file_path]) :
             IF ok
             THEN /\ req' = [req EXCEPT ![r] =
                               [rq EXCEPT !.ex = Extracted(disk[u.file_path]),
                                          !.pc = AfterExtract]]
                  /\ UNCHANGED <<uploads, summaries, cookie, scheduler>>
             ELSE FailRequest(r, rq, ExtractError)
    /\ UNCHANGED <<disk, now, nextId, lookup, cl, alive,
                   templates, limiter, resp, tp>>

\* summarize_with_claude(text, prompt_text) and the new summary row; the API
\* call may fail.
Summarize(r) ==
    /\ alive
    /\ req[r].pc = "summarize"
    /\ LET u  == CHOOSE x \in req[r].pu : x.id = req[r].cur
           rq == [req[r] EXCEPT !.log = Append(@, <<"summarize", u.id>>)]
       IN \/ /\ req' = [req EXCEPT ![r] =
                          [rq EXCEPT !.ps = @ \cup
                                        {Summary(u.id, u.id, rq.tpl,
                                                 SummaryText(rq.ex.text, MissPrompt(rq)),
                                                 rq.ex.page_count,
                                                 CharCount(rq.ex.text))},
                                     !.cur = 0, !.ex = NoText,
                                     !.todo = @ - 1, !.pc = "loop"]]
             /\ UNCHANGED <<uploads, summaries, cookie, scheduler>>
          \/ FailRequest(r, rq, ClaudeError)
    /\ UNCHANGED <<disk, now, nextId, lookup, cl, alive,
                   templates, limiter, resp, tp>>

\* db.session.commit() after the loop, then the redirect to the results.
Commit(r) ==
    /\ alive
    /\ req[r].pc = "loop"
    /\ req[r].todo = 0
    /\ uploads' = AfterCommit(uploads, req[r].pu)
    /\ summaries' = AfterCommit(summaries, req[r].ps)
    /\ req' = [req EXCEPT ![r] = Finished(req[r], "ok")]
    /\ cookie' = StoreSession(cookie, req[r])
    /\ cl' = [cl EXCEPT !.quiet = FALSE]
    /\ scheduler' = shutdown_extensions(scheduler)
    /\ UNCHANGED <<disk, now, nextId, lookup, alive,
                   templates, limiter, resp, tp>>

\* The clock advances.
Tick ==
    /\ now < MaxTime
    /\ now' = now + 1
    /\ UNCHANGED <<uploads, summaries, disk, nextId, req, lookup,
                   cl, scheduler, alive, webVars>>

\* ----------------------------------------------------------------- cleanup
\* cleanup.py:33  cutoff_date = now - timedelta(days=retention_days)
CutoffDate(t) == t - RetentionDays

\* Variant: the filter uses <=.
OldUploadsInclusive(U, cutoff) == {u \in U : u.upload_date <= cutoff}

\* cleanup.py:35  Upload.query.filter(Upload.upload_date < cutoff_date)
OldUploads(U, cutoff) == {u \in U : u.upload_date < cutoff}

\* Variants: the row is not deleted; the summaries are not cascaded.
DeleteUploadsNone(U, D) == U
CascadeSummariesNone(S, D) == S

\* db.session.delete(upload) for each upload of D, with the
\* cascade="all, delete-orphan" of Upload.summaries.
DeleteUploads(U, D) == U \ D
CascadeSummaries(S, D) == {s \in S : s.upload_id \notin {u.id : u \in D}}

\* Variant: an upload whose file is missing is passed over.
DeletedRowsWithFile(d, D) == {u \in D : d[u.file_path] # NoFile}

\* cleanup.py:40-48  the uploads that the loop hands to db.session.delete:
\* every upload it visits, whether its file existed or not.
DeletedRows(d, D) == D

\* cleanup.py:42-45  the files removed for the uploads of D: those that exist.
RemovedPaths(d, D) == {u.file_path : u \in {x \in D : d[x.file_path] # NoFile}}
RemoveFiles(d, D) == [p \in Paths |-> IF p \in RemovedPaths(d, D) THEN NoFile ELSE d[p]]

RECURSIVE SumSizes(_, _)
SumSizes(d, P) ==
    IF P = {} THEN 0
    ELSE LET p == CHOOSE x \in P : TRUE
         IN FileSize(d[p]) + SumSizes(d, P \ {p})

\* cleanup.py:43-45  freed_space: the sizes of the files removed.
FreedSpace(d, D) == SumSizes(d, RemovedPaths(d, D))

\* Variant: the except branch keeps the deletions.
CleanupNoRollback(committed, after) == after

\* cleanup.py:60-62  except: rollback; the deletions marked in the session
\* are discarded.
CleanupRollback(committed, after) == committed

\* The record of a cleanup run: whether it completed, its cutoff, the counts
\* it logged, whether the exception was logged or left the function, whether
\* no batch has been committed since (quiet), and whether the run followed a
\* completed run with no commit in between (again).
Run(ok, cutoff, deleted, freed) ==
    [seq |-> 1 - cl.seq, ok |-> ok, cutoff |-> cutoff, deleted |-> deleted,
     freed |-> freed, logged |-> ~ok, raised |-> FALSE, quiet |-> TRUE,
     again |-> cl.ok /\ cl.quiet]

\* cleanup_old_uploads(app): one run, to completion or to the exception that
\* ends it.  The loop visits the old uploads in the order the query returns
\* them; done is the part visited before a file removal raises.
cleanup_old_uploads ==
    LET cutoff == CutoffDate(now)
        old    == OldUploads(uploads, cutoff)
    IN \/ \* every file is removed and the commit succeeds
          /\ disk' = RemoveFiles(disk, old)
          /\ uploads' = DeleteUploads(uploads, DeletedRows(disk, old))
          /\ summaries' = CascadeSummaries(summaries, DeletedRows(disk, old))
          /\ cl' = Run(TRUE, cutoff, Cardinality(DeletedRows(disk, old)),
                       FreedSpace(disk, old))
       \/ \* the commit raises after the loop
          /\ disk' = RemoveFiles(disk, old)
          /\ uploads' = CleanupRollback(uploads, DeleteUploads(uploads, old))
          /\ summaries' = CleanupRollback(summaries, CascadeSummaries(summaries, old))
          /\ cl' = Run(FALSE, cutoff, 0, 0)
       \/ \* os.remove raises for the file of x
          \E done \in SUBSET old, x \in old :
             /\ x \notin done
             /\ disk[x.file_path] # NoFile
             /\ x.file_path \notin RemovedPaths(disk, done)
             /\ disk' = RemoveFiles(disk, done)
             /\ uploads' = CleanupRollback(uploads, DeleteUploads(uploads, done))
             /\ summaries' = CleanupRollback(summaries, CascadeSummaries(summaries, done))
             /\ cl' = Run(FALSE, cutoff, 0, 0)

\* The cron job of CleanupScheduler.init_app fires; cleanup_old_uploads runs
\* inside "with app.app_context()", whose exit tears the context down.
CleanupJob ==
    /\ alive
    /\ scheduler = "running"
    /\ cleanup_old_uploads
    /\ scheduler' = shutdown_extensions(scheduler)
    /\ UNCHANGED <<now, nextId, req, lookup, alive, webVars>>

\* ---------------------------------------------------------- process life
\* The process terminates: in-flight handlers die with their transactions.
Terminate ==
    /\ alive
    /\ alive' = FALSE
    /\ scheduler' = "stopped"
    /\ req' = [r \in Handlers |-> IF req[r].pc = "idle" THEN req[r]
                              ELSE Finished(req[r], "aborted")]
    /\ UNCHANGED <<uploads, summaries, disk, now, nextId, lookup, cl, webVars>>

\* create_app(start_scheduler=True): CleanupScheduler.init_app starts the
\* scheduler; the limiter starts with an empty in-memory storage.
create_app ==
    /\ ~alive
    /\ alive' = TRUE
    /\ scheduler' = "running"
    /\ limiter' = [limiter EXCEPT !.win = [c \in Clients |-> NoWindow],
                                  !.inwin = [c \in Clients |-> 0]]
    /\ UNCHANGED <<uploads, summaries, disk, now, nextId, req, lookup, cl,
                   templates, cookie, resp, tp>>

NoRun == [seq |-> 0, ok |-> FALSE, cutoff |-> 0, deleted |-> 0, freed |-> 0,
          logged |-> FALSE, raised |-> FALSE, quiet |-> FALSE, again |-> FALSE]

\* The names of the prompt templates; template 1 is the default template
\* that init_default_prompt creates.
TemplateNames == {"Basic Summary", "Detailed"}
SeedName(t) == IF t = 1 THEN "Basic Summary" ELSE "Detailed"
SeedTemplates == {PromptTemplate(t, SeedName(t), PromptText(t), TRUE) : t \in Templates}

\* A session that carries identifier i.
IssuedSession(i) == [session_id |-> i, permanent |-> TRUE]

\* The storage of the limiter for the client addresses C: no window open.
LimiterStorage(on, C) ==
    [enabled |-> on,
     win     |-> [c \in C |-> NoWindow],
     inwin   |-> [c \in C |-> 0]]

NoResponse == [seq |-> 0, route |-> "none", client |-> 0, status |-> 0, arg |-> 0,
               shown |-> {}, flash |-> "none"]

IdleForm == [pc |-> "idle", op |-> "none", id |-> 0, name |-> "none",
             text |-> PromptText(0), active |-> FALSE, flash |-> "none"]

\* One returning client, the two templates, the limiter switched off
\* (RATELIMIT_ENABLED = False), no template form open.
InitWebOff ==
    /\ templates = SeedTemplates
    /\ cookie = <<IssuedSession(1)>>
    /\ limiter = LimiterStorage(FALSE, {1})
    /\ resp = NoResponse
    /\ tp = <<IdleForm>>

Init ==
    /\ uploads = {}
    /\ summaries = {}
    /\ disk = [p \in Paths |-> NoFile]
    /\ now = 0
    /\ nextId = 1
    /\ req = <<IdleReq>>
    /\ lookup = [hash |-> Digest("a"), tpl |-> 0, result |-> 0, called |-> FALSE]
    /\ cl = NoRun
    /\ scheduler = "running"
    /\ alive = TRUE
    /\ InitWebOff

Next ==
    \/ \E r \in Handlers, c \in Clients, n \in 1..MaxFiles, t \in Templates :
          Submit(r, c, n, t)
    \/ \E r \in Handlers, f \in PdfFiles : ProcessFile(r, f)
    \/ \E r \in Handlers : Extract(r)
    \/ \E r \in Handlers : Summarize(r)
    \/ \E r \in Handlers : Commit(r)
    \/ CleanupJob
    \/ Terminate
    \/ create_app
    \/ Tick

Spec == Init /\ [][Next]_vars

\* ------------------------------------------------------------ short routes
\* The response of a short route to client c: its status, the argument of
\* the request, the ids of the uploads the page lists and the message
\* flashed; seq tells one response from the next.
Response(route, c, status, arg, shown, flash) ==
    [seq |-> 1 - resp.seq, route |-> route, client |-> c, status |-> status,
     arg |-> arg, shown |-> shown, flash |-> flash]

\* Variant: the listing is not filtered by session.
SessionUploadsAll(U, sid) == U

\* Upload.query.filter_by(session_id=session_id)
SessionUploads(U, sid) == {u \in U : u.session_id = sid}

\* GET /my-uploads by client c.
my_uploads(c) ==
    /\ alive
    /\ ClientFree(c)
    /\ LET sess == get_or_create_session_id(cookie[c], uuid4)
       IN /\ cookie' = [cookie EXCEPT ![c] = sess]
          /\ resp' = Response("my_uploads", c, 200, 0,
                              UploadIds(SessionUploads(uploads, sess.session_id)),
                              "none")
    /\ scheduler' = shutdown_extensions(scheduler)
    /\ UNCHANGED <<uploads, summaries, disk, now, nextId, req, lookup, cl, alive,
                   templates, limiter, tp>>

\* GET /all-summaries by client c.
all_summaries(c) ==
    /\ alive
    /\ ClientFree(c)
    /\ resp' = Response("all_summaries", c, 200, 0, UploadIds(uploads), "none")
    /\ scheduler' = shutdown_extensions(scheduler)
    /\ UNCHANGED <<uploads, summaries, disk, now, nextId, req, lookup, cl, alive,
                   templates, cookie, limiter, tp>>

\* Variant: the results page lists the uploads of the client's session only.
resultsOwnSession(c, ids) ==
    /\ alive
    /\ ClientFree(c)
    /\ resp' = IF ids = {}
               THEN Response("results", c, 302, ids, {}, "warning")
               ELSE Response("results", c, 200, ids,
                             UploadIds({u \in SessionUploads(uploads,
                                                             cookie[c].session_id) :
                                           u.id \in ids}),
                             "none")
    /\ scheduler' = shutdown_extensions(scheduler)
    /\ UNCHANGED <<uploads, summaries, disk, now, nextId, req, lookup, cl, alive,
                   templates, cookie, limiter, tp>>

\* GET /results?ids=... by client c: without ids a warning is flashed and
\* the client redirected, otherwise the page shows the uploads whose id is
\* among ids.  The session is not read.
results(c, ids) ==
    /\ alive
    /\ ClientFree(c)
    /\ resp' = IF ids = {}
               THEN Response("results", c, 302, ids, {}, "warning")
               ELSE Response("results", c, 200, ids,
                             UploadIds({u \in uploads : u.id \in ids}), "none")
    /\ scheduler' = shutdown_extensions(scheduler)
    /\ UNCHANGED <<uploads, summaries, disk, now, nextId, req, lookup, cl, alive,
                   templates, cookie, limiter, tp>>

\* Variant: the not-found exception leaves the handler.
DownloadMissingAborts == [status |-> 404, flash |-> "none"]

\* routes.download_summary for an id that db.session.get does not find:
\* abort(404) raises inside the try block, "except Exception" catches the
\* exception, flashes the error and redirects to the index.
DownloadMissing == [status |-> 302, flash |-> "error"]

\* GET /download/<id> by client c: the file delivered is made of the summary
\* and of its upload.
download_summary(c, id) ==
    /\ alive
    /\ ClientFree(c)
    /\ resp' = IF \E x \in summaries : x.id = id
               THEN Response("download", c, 200, id,
                             {x.upload_id : x \in {y \in summaries : y.id = id}},
                             "none")
               ELSE Response("download", c, DownloadMissing.status, id, {},
                             DownloadMissing.flash)
    /\ scheduler' = shutdown_extensions(scheduler)
    /\ UNCHANGED <<uploads, summaries, disk, now, nextId, req, lookup, cl, alive,
                   templates, cookie, limiter, tp>>

\* POST / by client c with n files of which the first does not end in .pdf:
\* FileAllowed(["pdf"]) tests the data of the file field, which is the first
\* file of the request, so validate_on_submit() is false, no file is read
\* and the index page is rendered again with the field error.
RejectForm(c, n) ==
    /\ alive
    /\ ClientFree(c)
    /\ Admitted(limiter, c)
    /\ ActivePrompts(templates) # {}
    /\ LET sess == get_or_create_session_id(cookie[c], uuid4)
       IN /\ cookie' = [cookie EXCEPT ![c] = sess]
          /\ resp' = Response("index", c, 200, n,
                              UploadIds(SessionUploads(uploads, sess.session_id)),
                              "form_invalid")
    /\ limiter' = LimiterServe(limiter, c)
    /\ scheduler' = shutdown_extensions(scheduler)
    /\ UNCHANGED <<uploads, summaries, disk, now, nextId, req, lookup, cl, alive,
                   templates, tp>>

\* GET / by client c, served: the limiter counts the request, the session
\* identifier is read or minted and the page lists the uploads of the
\* session.
index_get(c) ==
    /\ alive
    /\ ClientFree(c)
    /\ Admitted(limiter, c)
    /\ ActivePrompts(templates) # {}
    /\ LET sess == get_or_create_session_id(cookie[c], uuid4)
       IN /\ cookie' = [cookie EXCEPT ![c] = sess]
          /\ resp' = Response("index", c, 200, 0,
                              UploadIds(SessionUploads(uploads, sess.session_id)),
                              "none")
    /\ limiter' = LimiterServe(limiter, c)
    /\ scheduler' = shutdown_extensions(scheduler)
    /\ UNCHANGED <<uploads, summaries, disk, now, nextId, req, lookup, cl, alive,
                   templates, tp>>

\* A request to / (GET or POST) by client c that exceeds the limit: the
\* limiter raises before the view runs and error_handlers.ratelimit_handler
\* answers with status 429.
RateLimited(c) ==
    /\ alive
    /\ ClientFree(c)
    /\ ~Admitted(limiter, c)
    /\ resp' = Response("index", c, 429, 0, {}, "none")
    /\ limiter' = LimiterHit(limiter, c)
    /\ scheduler' = shutdown_extensions(scheduler)
    /\ UNCHANGED <<uploads, summaries, disk, now, nextId, req, lookup, cl, alive,
                   templates, cookie, tp>>

\* The clock of the limiter advances by one tick.
LimiterTick ==
    /\ limiter.enabled
    /\ limiter' = LimiterAge(limiter)
    /\ UNCHANGED <<uploads, summaries, disk, now, nextId, req, lookup, cl, alive,
                   scheduler, templates, cookie, resp, tp>>

\* The session cookie of client c is gone: PERMANENT_SESSION_LIFETIME has
\* passed since its last response.
SessionExpires(c) ==
    /\ ClientFree(c)
    /\ cookie[c].session_id # 0
    /\ cookie' = [cookie EXCEPT ![c] = NoSession]
    /\ UNCHANGED <<uploads, summaries, disk, now, nextId, req, lookup, cl, alive,
                   scheduler, templates, limiter, resp, tp>>

\* ------------------------------------------------- prompt template forms
\* The handlers of /prompts/new and /prompts/<id>/edit: one per entry of tp.
FormHandlers == DOMAIN tp

MaxTemplates == 3

\* The id of a new row of prompt_template: one more than the largest id in
\* the table (integer primary key of the default SQLite database).
NewTemplateId(T) ==
    IF T = {} THEN 1
    ELSE (CHOOSE p \in T : \A q \in T : q.id <= p.id).id + 1

\* routes.py:337 and 375-377: a template, other than the one being edited
\* (self = 0 for a new template), has the name.
NameExists(T, name, self) == \E p \in T : p.name = name /\ p.id # self

\* Variant: the column has no unique constraint.
UniqueNameViolatedNever(T, name, self) == FALSE

\* models.py:54 unique=True: the INSERT or UPDATE of the commit raises
\* IntegrityError when another row has the name.
UniqueNameViolated(T, name, self) == \E p \in T : p.name = name /\ p.id # self

\* The form handler returns with the message it flashed.
FormDone(msg) == [IdleForm EXCEPT !.flash = msg]

\* POST /prompts/new (id = 0) or POST /prompts/<id>/edit with a valid form,
\* up to the check of the name: a taken name is flashed and the handler
\* returns, otherwise the handler goes on to write the row.
PromptCheck(h, id, name, text, active) ==
    /\ alive
    /\ tp[h].pc = "idle"
    /\ id # 0 => \E p \in templates : p.id = id
    /\ IF NameExists(templates, name, id)
       THEN /\ tp' = [tp EXCEPT ![h] = FormDone("exists")]
            /\ scheduler' = shutdown_extensions(scheduler)
       ELSE /\ tp' = [tp EXCEPT ![h] = [pc |-> "checked",
                                        op |-> IF id = 0 THEN "new" ELSE "edit",
                                        id |-> id, name |-> name, text |-> text,
                                        active |-> active, flash |-> "none"]]
            /\ UNCHANGED scheduler
    /\ UNCHANGED <<uploads, summaries, disk, now, nextId, req, lookup, cl, alive,
                   templates, cookie, limiter, resp>>

\* The rest of prompts_new and prompts_edit: the row is added or changed and
\* the session committed; an exception of the commit (unique constraint, or
\* the edited row is gone) is caught, rolled back and flashed.
PromptCommit(h) ==
    /\ alive
    /\ tp[h].pc = "checked"
    /\ LET f == tp[h]
       IN IF tp[h].op = "new"
          THEN /\ NewTemplateId(templates) <= MaxTemplates
               /\ IF UniqueNameViolated(templates, f.name, 0)
                  THEN /\ tp' = [tp EXCEPT ![h] = FormDone("error")]
                       /\ UNCHANGED templates
                  ELSE /\ templates' = templates \cup
                              {PromptTemplate(NewTemplateId(templates), f.name,
                                              f.text, f.active)}
                       /\ tp' = [tp EXCEPT ![h] = FormDone("created")]
          ELSE IF \/ ~\E p \in templates : p.id = f.id
                  \/ UniqueNameViolated(templates, f.name, f.id)
               THEN /\ tp' = [tp EXCEPT ![h] = FormDone("error")]
                    /\ UNCHANGED templates
               ELSE /\ templates' = {p \in templates : p.id # f.id} \cup
                           {PromptTemplate(f.id, f.name, f.text, f.active)}
                    /\ tp' = [tp EXCEPT ![h] = FormDone("updated")]
    /\ scheduler' = shutdown_extensions(scheduler)
    /\ UNCHANGED <<uploads, summaries, disk, now, nextId, req, lookup, cl, alive,
                   cookie, limiter, resp>>

\* Variant: the template is deleted without the count.
SummaryCountNone(S, id) == 0

\* routes.py:413  Summary.query.filter_by(prompt_template_id=prompt_id).count()
\* over the committed rows.
SummaryCount(S, id) == Cardinality({x \in S : x.prompt_template_id = id})

\* POST /prompts/<id>/delete for a template that exists.
prompts_delete(id) ==
    /\ alive
    /\ \E p \in templates : p.id = id
    /\ IF SummaryCount(summaries, id) > 0
       THEN /\ resp' = Response("prompts_delete", 0, 302, id, {}, "in_use")
            /\ UNCHANGED templates
       ELSE /\ templates' = {p \in templates : p.id # id}
            /\ resp' = Response("prompts_delete", 0, 302, id, {}, "deleted")
    /\ scheduler' = shutdown_extensions(scheduler)
    /\ UNCHANGED <<uploads, summaries, disk, now, nextId, req, lookup, cl, alive,
                   cookie, limiter, tp>>

\* The state in which no request has been served: the tables hold the
\* templates T only, the clients carry the sessions ck, the limiter is
\* switched on or off, nh handlers of route / and nf handlers of the prompt
\* template forms are idle.
InitServer(T, ck, on, nh, nf) ==
    /\ uploads = {}
    /\ summaries = {}
    /\ disk = [p \in Paths |-> NoFile]
    /\ now = 0
    /\ nextId = 1
    /\ req = [r \in 1..nh |-> IdleReq]
    /\ lookup = [hash |-> Digest("a"), tpl |-> 0, result |-> 0, called |-> FALSE]
    /\ cl = NoRun
    /\ scheduler = "running"
    /\ alive = TRUE
    /\ templates = T
    /\ cookie = ck
    /\ limiter = LimiterStorage(on, DOMAIN ck)
    /\ resp = NoResponse
    /\ tp = [h \in 1..nf |-> IdleForm]

\* SpecSession: two new clients submit files of one content with the
\* default template and read the listings; their sessions may expire.
InitSession ==
    InitServer({p \in SeedTemplates : p.id = 1}, <<NoSession, NoSession>>, FALSE, 1, 1)

NextSession ==
    \/ \E r \in Handlers, c \in Clients, n \in 1..MaxFiles, t \in Templates :
          Submit(r, c, n, t)
    \/ \E r \in Handlers, f \in {x \in PdfFiles : x.content = "a"} : ProcessFile(r, f)
    \/ \E r \in Handlers : Extract(r)
    \/ \E r \in Handlers : Summarize(r)
    \/ \E r \in Handlers : Commit(r)
    \/ \E c \in Clients : my_uploads(c)
    \/ \E c \in Clients : all_summaries(c)
    \/ \E c \in Clients : SessionExpires(c)

SpecSession == InitSession /\ [][NextSession]_vars

\* SpecRoutes: one returning client submits files of any extension and
\* downloads summaries.
InitRoutes ==
    InitServer(SeedTemplates, <<IssuedSession(1)>>, FALSE, 1, 1)

NextRoutes ==
    \/ \E r \in Handlers, c \in Clients, n \in 1..MaxFiles, t \in Templates :
          Submit(r, c, n, t)
    \/ \E c \in Clients, n \in 1..MaxFiles : RejectForm(c, n)
    \/ \E r \in Handlers, f \in Files : ProcessFile(r, f)
    \/ \E r \in Handlers, f \in Files : SkipFile(r, f)
    \/ \E r \in Handlers : Extract(r)
    \/ \E r \in Handlers : Summarize(r)
    \/ \E r \in Handlers : Commit(r)
    \/ \E c \in Clients, id \in 1..MaxUploads : download_summary(c, id)

SpecRoutes == InitRoutes /\ [][NextRoutes]_vars

\* SpecPrompts: two handlers of the prompt template forms and the delete
\* route work on the table, starting from the default template.
InitPrompts ==
    InitServer({p \in SeedTemplates : p.id = 1}, <<IssuedSession(1)>>, FALSE, 1, 2)

NextPrompts ==
    \/ \E h \in FormHandlers, id \in 0..MaxTemplates, name \in TemplateNames,
          active \in BOOLEAN :
          PromptCheck(h, id, name, PromptText(1), active)
    \/ \E h \in FormHandlers : PromptCommit(h)
    \/ \E id \in 1..MaxTemplates : prompts_delete(id)

SpecPrompts == InitPrompts /\ [][NextPrompts]_vars

\* SpecDelete: the delete route next to the ingestion of files of one
\* content by one client.
InitDelete ==
    InitServer(SeedTemplates, <<IssuedSession(1)>>, FALSE, 1, 1)

NextDelete ==
    \/ \E r \in Handlers, c \in Clients, n \in 1..MaxFiles, t \in Templates :
          Submit(r, c, n, t)
    \/ \E r \in Handlers, f \in {x \in PdfFiles : x.content = "a"} : ProcessFile(r, f)
    \/ \E r \in Handlers : Extract(r)
    \/ \E r \in Handlers : Summarize(r)
    \/ \E r \in Handlers : Commit(r)
    \/ \E id \in Templates : prompts_delete(id)

SpecDelete == InitDelete /\ [][NextDelete]_vars

\* SpecLimit: two clients send requests to / with the limiter switched on;
\* the files submitted have one content.
InitLimit ==
    InitServer({p \in SeedTemplates : p.id = 1},
               <<IssuedSession(1), IssuedSession(2)>>, TRUE, 1, 1)

NextLimit ==
    \/ \E c \in Clients : index_get(c)
    \/ \E r \in Handlers, c \in Clients, t \in Templates : Submit(r, c, 1, t)
    \/ \E r \in Handlers, f \in {x \in PdfFiles : x.content = "a"} : ProcessFile(r, f)
    \/ \E r \in Handlers : Extract(r)
    \/ \E r \in Handlers : Summarize(r)
    \/ \E r \in Handlers : Commit(r)
    \/ \E c \in Clients : RateLimited(c)
    \/ LimiterTick

SpecLimit == InitLimit /\ [][NextLimit]_vars

\* SpecConc: two handlers of route / serve two clients at the same time,
\* each with its own database session.
InitConc ==
    InitServer({p \in SeedTemplates : p.id = 1},
               <<IssuedSession(1), IssuedSession(2)>>, FALSE, 2, 1)

NextConc ==
    \/ \E r \in Handlers, c \in Clients, n \in 1..MaxFiles, t \in Templates :
          Submit(r, c, n, t)
    \/ \E r \in Handlers, f \in PdfFiles : ProcessFile(r, f)
    \/ \E r \in Handlers : Extract(r)
    \/ \E r \in Handlers : Summarize(r)
    \/ \E r \in Handlers : Commit(r)

SpecConc == InitConc /\ [][NextConc]_vars

\* SpecRetention: the server of Spec on the database of an earlier run: it
\* holds one upload of content "a" with template 1 that was served from the
\* cache, with its copied summary; the upload it was copied from is gone.
PriorUpload == HitUpload(1, UniquePath("doc", 0), Digest("a"), 0, 1)
PriorSummary ==
    Summary(1, 1, 1, SummaryText(Extracted("a").text, PromptText(1)),
            Extracted("a").page_count, CharCount(Extracted("a").text))

InitRetention ==
    /\ uploads = {PriorUpload}
    /\ summaries = {PriorSummary}
    /\ disk = [p \in Paths |-> IF p = PriorUpload.file_path THEN "a" ELSE NoFile]
    /\ now = 0
    /\ nextId = 2
    /\ req = <<IdleReq>>
    /\ lookup = [hash |-> Digest("a"), tpl |-> 0, result |-> 0, called |-> FALSE]
    /\ cl = NoRun
    /\ scheduler = "running"
    /\ alive = TRUE
    /\ InitWebOff

SpecRetention == InitRetention /\ [][Next]_vars

\* SpecEdit: the edit form of template 1 next to the ingestion of files of
\* one content with that template.
InitEdit ==
    InitServer({p \in SeedTemplates : p.id = 1}, <<IssuedSession(1)>>, FALSE, 1, 1)

NextEdit ==
    \/ \E r \in Handlers, c \in Clients, n \in 1..MaxFiles : Submit(r, c, n, 1)
    \/ \E r \in Handlers, f \in {x \in PdfFiles : x.content = "a"} : ProcessFile(r, f)
    \/ \E r \in Handlers : Extract(r)
    \/ \E r \in Handlers : Summarize(r)
    \/ \E r \in Handlers : Commit(r)
    \/ \E h \in FormHandlers, t \in Templates, active \in BOOLEAN :
          PromptCheck(h, 1, SeedName(1), PromptText(t), active)
    \/ \E h \in FormHandlers : PromptCommit(h)

SpecEdit == InitEdit /\ [][NextEdit]_vars

\* SpecShare: two clients with their own sessions upload files of one
\* content and read the results, download, my-uploads and index pages.
InitShare ==
    InitServer({p \in SeedTemplates : p.id = 1},
               <<IssuedSession(1), IssuedSession(2)>>, FALSE, 1, 1)

NextShare ==
    \/ \E r \in Handlers, c \in Clients : Submit(r, c, 1, 1)
    \/ \E r \in Handlers, f \in {x \in PdfFiles : x.content = "a"} : ProcessFile(r, f)
    \/ \E r \in Handlers : Extract(r)
    \/ \E r \in Handlers : Summarize(r)
    \/ \E r \in Handlers : Commit(r)
    \/ \E c \in Clients, ids \in SUBSET (1..MaxUploads) : results(c, ids)
    \/ \E c \in Clients, id \in 1..MaxUploads : download_summary(c, id)
    \/ \E c \in Clients : my_uploads(c)
    \/ \E c \in Clients : index_get(c)

SpecShare == InitShare /\ [][NextShare]_vars

\* --------------------------------------------- check_cache on any database
\* check_cache is a read-only function of the rows: SpecCache draws a small
\* database that satisfies the schema (unique ids, summaries referencing
\* existing uploads, nullable template reference written 0) and applies
\* check_cache to every digest and template id.
MaxCacheRows == 2
CacheTemplates == Templates \cup {0}
CacheUploadRows ==
    {Upload(id, UniquePath("doc", 0), Digest(c), 0, FALSE, 1) :
        id \in 1..MaxCacheRows, c \in Contents}
UniqueIds(R) == \A x, y \in R : x.id = y.id => x = y
\* A summary table: for each summary id, no row (<<0, 0>>) or the upload and
\* the template the row references.
CacheSummaryTables == [1..MaxCacheRows -> ((0..MaxCacheRows) \X CacheTemplates)]
CacheSummaryRows(f) ==
    {Summary(id, f[id][1], f[id][2],
             SummaryText(Extracted("a").text, PromptText(f[id][2])),
             Extracted("a").page_count, CharCount(Extracted("a").text)) :
        id \in {i \in 1..MaxCacheRows : f[i][1] # 0}}

InitCache ==
    /\ uploads \in {U \in SUBSET CacheUploadRows : UniqueIds(U)}
    /\ \E f \in CacheSummaryTables :
          /\ \A i \in 1..MaxCacheRows : f[i][1] = 0 => f[i][2] = 0
          /\ \A i \in 1..MaxCacheRows :
                f[i][1] # 0 => \E u \in uploads : u.id = f[i][1]
          /\ summaries = CacheSummaryRows(f)
    /\ disk = [p \in Paths |-> NoFile]
    /\ now = 0
    /\ nextId = MaxCacheRows + 1
    /\ req = <<IdleReq>>
    /\ lookup = [hash |-> Digest("a"), tpl |-> 0, result |-> 0, called |-> FALSE]
    /\ cl = NoRun
    /\ scheduler = "stopped"
    /\ alive = TRUE
    /\ InitWebOff

\* A call check_cache(h, t) and the value it returns.
CacheLookup(h, t) ==
    /\ \E c \in check_cache(uploads, summaries, h, t) :
          lookup' = [hash |-> h, tpl |-> t, result |-> c, called |-> TRUE]
    /\ UNCHANGED <<uploads, summaries, disk, now, nextId, req, cl, scheduler, alive,
                   webVars>>

NextCache == \E c \in Contents, t \in CacheTemplates : CacheLookup(Digest(c), t)

SpecCache == InitCache /\ [][NextCache]_vars

\* ------------------------------------------------------------------ claims

\* The step is one iteration of the file loop of handler r.
IsProcessStep(r) ==
    /\ req[r].pc = "loop"
    /\ nextId' = nextId + 1
    /\ \E u \in req'[r].pu : u.id = nextId

\* The upload row that the iteration has just flushed.
NewRow(r) == CHOOSE u \in req'[r].pu : u.id = nextId

\* The step is a cleanup run.
IsCleanupStep == cl'.seq # cl.seq

\* The kinds of the external calls logged for upload id, in call order.
RECURSIVE CallsFor(_, _)
CallsFor(log, id) ==
    IF log = <<>> THEN <<>>
    ELSE IF Head(log)[2] = id THEN <<Head(log)[1]>> \o CallsFor(Tail(log), id)
         ELSE CallsFor(Tail(log), id)

\* C1: when a committed upload with the digest of the ingested file has a
\* summary for the selected template, the iteration makes no extraction and
\* no summarization call (the call log is unchanged and the loop goes on to
\* the next file), and the upload row it adds has is_cached = TRUE; no
\* pending upload with is_cached = TRUE ever has a call logged for it.
C1_CacheHitSuppressesCalls ==
    [][\A r \in Handlers :
         /\ (/\ IsProcessStep(r)
             /\ \E u \in uploads :
                   /\ u.file_hash = NewRow(r).file_hash
                   /\ \E x \in SummariesOf(summaries, u.id) :
                         x.prompt_template_id = req[r].tpl)
            => /\ NewRow(r).is_cached = TRUE
               /\ req'[r].log = req[r].log
               /\ req'[r].pc = "loop"
               /\ SummariesOf(req'[r].ps, nextId) # {}
         /\ \A u \in req'[r].pu : u.is_cached => CallsFor(req'[r].log, u.id) = <<>>
         /\ (req[r].pc = "loop" /\ req'[r].outcome = "ok")
            => req[r].pu \subseteq uploads'
      ]_vars

\* C1 witness: a cache-hit upload is committed next to the committed upload
\* it was served from.
C1_Witness ==
    \E u \in uploads, v \in uploads :
        /\ u.is_cached /\ ~v.is_cached
        /\ u.file_hash = v.file_hash
        /\ \E x \in SummariesOf(summaries, u.id), y \in SummariesOf(summaries, v.id) :
              x.prompt_template_id = y.prompt_template_id

\* C2: when no upload the handler sees with the digest of the ingested file
\* has a summary, the iteration adds an upload with is_cached = FALSE and goes
\* on to extraction; for every such upload the calls are extraction once and
\* then summarization once (in that order, summarization only after a
\* successful extraction), a failed extraction ends the handler, and the
\* commit stores the rows as they were added.
C2_CacheMissCallsInOrder ==
    [][\A r \in Handlers :
         /\ (/\ IsProcessStep(r)
             /\ \A u \in ViewU(r) :
                   u.file_hash = NewRow(r).file_hash => SummariesOf(ViewS(r), u.id) = {})
            => /\ NewRow(r).is_cached = FALSE
               /\ req'[r].pc = "extract"
               /\ req'[r].log = req[r].log
         /\ \A u \in req'[r].pu : ~u.is_cached =>
               LET calls == CallsFor(req'[r].log, u.id)
               IN IF SummariesOf(req'[r].ps, u.id) # {}
                  THEN calls = <<"extract", "summarize">>
                  ELSE /\ req'[r].cur = u.id
                       /\ \/ req'[r].pc = "extract" /\ calls = <<>>
                          \/ req'[r].pc = "summarize" /\ calls = <<"extract">>
         /\ (req[r].pc = "extract" /\ req'[r].pc \notin {"extract", "summarize"})
            => /\ req'[r].pc = "idle"
               /\ req'[r].outcome \in {"failed", "aborted"}
               /\ req'[r].outcome = "failed" =>
                     CallsFor(req'[r].log, req[r].cur) = <<"extract">>
         /\ (req[r].pc = "loop" /\ req'[r].outcome = "ok")
            => {u \in uploads' : u.id \in req[r].created} = req[r].pu
      ]_vars

\* C2 witness: a cache-miss upload is committed with its summary.
C2_Witness ==
    \E r \in Handlers :
        /\ req[r].outcome = "ok"
        /\ \E u \in uploads :
              /\ u.id \in req[r].created
              /\ ~u.is_cached
              /\ SummariesOf(summaries, u.id) # {}

\* C3: no upload row and no summary row created by a submission that failed
\* (or is still running) is committed, including the rows of the files that
\* were processed before the failing one.
C3_BatchAtomicity ==
    \A r \in Handlers :
        req[r].outcome \in {"failed", "running"} =>
            /\ UploadIds(uploads) \cap req[r].created = {}
            /\ \A x \in summaries : x.upload_id \notin req[r].created

\* C3 witness: a two-file submission failed on its second file.
C3_Witness ==
    \E r \in Handlers :
        /\ req[r].outcome = "failed"
        /\ Cardinality(req[r].created) >= 2
        /\ Len(req[r].log) >= 3

\* C4: a cleanup run that completes deletes exactly the uploads whose age is
\* more than the retention; an upload whose age is at most the retention
\* (exactly the retention included) is retained.
C4_RetentionBoundary ==
    [][(IsCleanupStep /\ cl'.ok) =>
          uploads' = {u \in uploads : now - u.upload_date <= RetentionDays}
      ]_vars

\* C4 witness: a run deleted an upload and kept one whose age was exactly the
\* retention.
C4_Witness ==
    /\ cl.ok
    /\ cl.deleted > 0
    /\ \E u \in uploads : u.upload_date = cl.cutoff

\* C5: every committed summary references a committed upload, and a cleanup
\* run removes exactly the summaries of the uploads it removes.
C5_CascadeDelete ==
    [][/\ \A x \in summaries' : x.upload_id \in UploadIds(uploads')
       /\ IsCleanupStep =>
             summaries' = {x \in summaries : x.upload_id \in UploadIds(uploads')}
      ]_vars

\* C5 witness: the summary of a cache-hit copy is in place after a cleanup run
\* deleted the upload it was copied from.
C5_Witness ==
    /\ cl.ok
    /\ cl.deleted > 0
    /\ \E u \in uploads :
          /\ u.is_cached
          /\ SummariesOf(summaries, u.id) # {}
          /\ \A v \in uploads : v.file_hash = u.file_hash => v.is_cached

C7_CleanupAtomic ==
    [][(IsCleanupStep /\ ~cl'.ok) =>
          /\ uploads' = uploads
          /\ summaries' = summaries
          /\ cl'.logged
          /\ ~cl'.raised
      ]_vars

\* C7 witness: a run failed while an upload older than its cutoff was to be
\* deleted, and the upload is still there.
C7_Witness ==
    /\ cl.logged
    /\ ~cl.ok
    /\ \E u \in uploads : u.upload_date < cl.cutoff

\* C8: every committed upload has its backing file on storage.
C8_BackingFilePresent ==
    \A u \in uploads : disk[u.file_path] # NoFile

\* C9: while the process lives, the cleanup scheduler started by create_app
\* is running.
C9_SchedulerRunsWhileAlive ==
    alive => scheduler = "running"

\* C10: check_cache returns None or an upload with the digest asked for that
\* has at least one summary; when no upload with the digest has a summary
\* (also when none has the digest) it returns None.
C10_CacheNeverReturnsUnsummarized ==
    /\ lookup.result # 0 =>
          \E u \in uploads :
             /\ u.id = lookup.result
             /\ u.file_hash = lookup.hash
             /\ SummariesOf(summaries, u.id) # {}
    /\ (\A u \in uploads :
           u.file_hash = lookup.hash => SummariesOf(summaries, u.id) = {})
       => lookup.result = 0

\* C10 witness: a lookup passed over an upload that has the digest and no
\* summary, and returned another upload with the digest.
C10_Witness ==
    /\ lookup.called
    /\ lookup.result # 0
    /\ \E u \in uploads :
          u.file_hash = lookup.hash /\ SummariesOf(summaries, u.id) = {}

\* The step is the summarizer call of handler r, and it returned.
IsSummarizeStep(r) ==
    /\ req[r].pc = "summarize"
    /\ req'[r].pc = "loop"

\* The prompt text of template t in the table.
PromptTextOf(T, t) == (CHOOSE p \in T : p.id = t).prompt_text

\* C11: the cache key is (digest, template id).  An iteration is served from
\* the cache only if an upload the handler sees has the digest of the file
\* and a summary of the selected template, and the text copied is that
\* summary's; when the uploads with the digest have summaries of other
\* templates only, the iteration is a miss (is_cached = FALSE, extraction
\* follows), and the summary the summarizer call produces is the one for
\* the extracted text and the prompt text of the selected template.
C11_CacheKeyIsDigestAndTemplate ==
    [][\A r \in Handlers :
         /\ (IsProcessStep(r) /\ NewRow(r).is_cached)
            => \E u \in ViewU(r) :
                  /\ u.file_hash = NewRow(r).file_hash
                  /\ \E x \in SummariesOf(ViewS(r), u.id) :
                        /\ x.prompt_template_id = req[r].tpl
                        /\ \E y \in SummariesOf(req'[r].ps, nextId) :
                              y.summary_text = x.summary_text
         /\ (/\ IsProcessStep(r)
             /\ \A u \in ViewU(r) : u.file_hash = NewRow(r).file_hash =>
                   \A x \in SummariesOf(ViewS(r), u.id) :
                      x.prompt_template_id # req[r].tpl)
            => /\ ~NewRow(r).is_cached
               /\ req'[r].pc = "extract"
               /\ SummariesOf(req'[r].ps, nextId) = {}
         /\ IsSummarizeStep(r)
            => \E y \in req'[r].ps \ req[r].ps :
                  /\ y.upload_id = req[r].cur
                  /\ y.prompt_template_id = req[r].tpl
                  /\ y.summary_text =
                        SummaryText(req[r].ex.text, PromptTextOf(templates, req[r].tpl))
      ]_vars

\* C11 witness: two committed uploads of the same content, neither served
\* from the cache, the later one summarized with the prompt text of
\* template 2 while the earlier has a summary of template 1.
C11_Witness ==
    \E u \in uploads, v \in uploads :
        /\ u.id < v.id
        /\ u.file_hash = v.file_hash
        /\ ~u.is_cached /\ ~v.is_cached
        /\ \E x \in SummariesOf(summaries, u.id), y \in SummariesOf(summaries, v.id) :
              /\ x.prompt_template_id = 1
              /\ y.prompt_template_id = 2
              /\ y.summary_text # x.summary_text
              /\ y.summary_text[3] = PromptText(2)

\* C12: an iteration served from the cache adds one new upload row and one
\* new summary row for it (new ids; the rows that were there stay as they
\* were, the cached summary still belonging to the cached upload), and the
\* text, the page count and the character count of the new summary are
\* those of the summary of the selected template of an upload with the
\* digest of the file.
C12_CacheHitCopiesSummary ==
    [][\A r \in Handlers :
         (IsProcessStep(r) /\ NewRow(r).is_cached)
            => /\ NewRow(r).id \notin UploadIds(ViewU(r))
               /\ req'[r].pu = req[r].pu \cup {NewRow(r)}
               /\ uploads' = uploads /\ summaries' = summaries
               /\ \E y \in req'[r].ps :
                     /\ req'[r].ps = req[r].ps \cup {y}
                     /\ y.id \notin {x.id : x \in ViewS(r)}
                     /\ y.upload_id = NewRow(r).id
                     /\ \E u \in ViewU(r), x \in ViewS(r) :
                           /\ u.file_hash = NewRow(r).file_hash
                           /\ x.upload_id = u.id
                           /\ x.prompt_template_id = req[r].tpl
                           /\ y.summary_text = x.summary_text
                           /\ y.page_count = x.page_count
                           /\ y.char_count = x.char_count
      ]_vars

\* C12 witness: a committed upload served from the cache has its own summary
\* row, equal in text, page count and character count to the summary of an
\* upload that was summarized.
C12_Witness ==
    \E u \in uploads, v \in uploads :
        /\ u.is_cached /\ ~v.is_cached
        /\ u.file_hash = v.file_hash
        /\ \E y \in SummariesOf(summaries, u.id), x \in SummariesOf(summaries, v.id) :
              /\ y.id # x.id
              /\ y.summary_text = x.summary_text
              /\ y.page_count = x.page_count /\ x.page_count > 0
              /\ y.char_count = x.char_count /\ x.char_count > 0

\* The step sends the response of the short route named.
IsResponse(route) == resp'.seq # resp.seq /\ resp'.route = route

\* C13: the page /my-uploads of a client lists exactly the committed uploads
\* whose session_id is the identifier of the client's session, none of them
\* an upload of another client's session; the page /all-summaries lists the
\* committed uploads of all sessions; two clients never carry the same
\* identifier, and an upload row carries the identifier of the session of
\* the request that adds it.
C13_SessionIsolation ==
    [][/\ IsResponse("my_uploads") =>
             LET c   == resp'.client
                 sid == cookie'[c].session_id
             IN /\ sid # 0
                /\ resp'.shown = {u.id : u \in {x \in uploads : x.session_id = sid}}
                /\ \A d \in Clients \ {c}, u \in uploads :
                      (cookie[d].session_id # 0 /\ u.session_id = cookie[d].session_id)
                         => u.id \notin resp'.shown
       /\ IsResponse("all_summaries") => resp'.shown = UploadIds(uploads)
       /\ \A c \in Clients, d \in Clients :
             (c # d /\ cookie[c].session_id # 0)
                => cookie[c].session_id # cookie[d].session_id
       /\ \A r \in Handlers :
             IsProcessStep(r) => NewRow(r).session_id = req[r].session.session_id
      ]_vars

\* C13 witness: /my-uploads listed the upload of the client and left out the
\* committed upload of the other client's session.
C13_Witness ==
    /\ resp.route = "my_uploads"
    /\ resp.shown # {}
    /\ \E d \in Clients \ {resp.client}, u \in uploads :
          /\ cookie[d].session_id # 0
          /\ u.session_id = cookie[d].session_id
          /\ u.id \notin resp.shown
    /\ \A u \in uploads :
          u.id \in resp.shown <=> u.session_id = cookie[resp.client].session_id

\* C14: a request of a client whose session carries an identifier uses that
\* identifier and leaves it in the session: no step replaces an identifier
\* by another one (the session can only be lost, by expiry, which is no
\* request); an identifier is stored only in a session that carried none,
\* the session is then permanent and the identifier is carried by no other
\* client and by no committed upload.
C14_SessionIdStable ==
    [][\A c \in Clients :
         /\ cookie[c].session_id # 0
            => \/ cookie'[c] = cookie[c]
               \/ cookie'[c] = NoSession /\ req' = req /\ resp' = resp
         /\ (cookie[c].session_id = 0 /\ cookie'[c].session_id # 0)
            => /\ cookie'[c].permanent
               /\ \A d \in Clients \ {c} : cookie[d].session_id # cookie'[c].session_id
               /\ \A u \in uploads : u.session_id # cookie'[c].session_id
         /\ \A r \in Handlers :
               (/\ req[r].pc = "idle" /\ req'[r].pc = "loop"
                /\ req'[r].client = c
                /\ cookie[c].session_id # 0)
                  => req'[r].session = cookie[c]
      ]_vars

\* C14 witness: a client that was issued its identifier by a submission read
\* /my-uploads with the same identifier, and a later submission of the
\* client is in progress with it.
C14_Witness ==
    /\ resp.route = "my_uploads"
    /\ \E u \in uploads :
          /\ u.session_id = cookie[resp.client].session_id
          /\ u.id \in resp.shown
    /\ \E r \in Handlers :
          /\ req[r].pc = "loop"
          /\ req[r].client = resp.client
          /\ req[r].session = cookie[resp.client]

\* C15: GET /download/<id> for an id that no summary row has is answered
\* with status 404, not with the flashed error and the redirect of the
\* other failures.
C15_DownloadUnknownIs404 ==
    [][(IsResponse("download") /\ resp'.arg \notin {x.id : x \in summaries})
          => (resp'.status = 404 /\ resp'.flash = "none")
      ]_vars

\* C18: a file of a submission whose name does not end in .pdf is skipped
\* with a warning, without a file saved, a row added or an external call,
\* and the loop goes on; no submission that carries other files is turned
\* down as a whole because of such a file, whatever its position; a handler
\* that skipped a file commits the rows of its other files.
C18_NonPdfSkippedBatchContinues ==
    [][/\ \A r \in Handlers :
             (req[r].pc = "loop" /\ req'[r].skipped = req[r].skipped + 1)
                => /\ disk' = disk /\ nextId' = nextId
                   /\ uploads' = uploads /\ summaries' = summaries
                   /\ req'[r].pu = req[r].pu /\ req'[r].ps = req[r].ps
                   /\ req'[r].log = req[r].log
                   /\ req'[r].pc = "loop"
       /\ ~(IsResponse("index") /\ resp'.flash = "form_invalid" /\ resp'.arg > 1)
       /\ \A r \in Handlers :
             (req[r].pc = "loop" /\ req'[r].outcome = "ok")
                => req[r].pu \subseteq uploads'
      ]_vars

\* C16: every committed summary references a prompt template that exists: no
\* template is deleted while a summary references it, also when the deletion
\* comes between the steps of an ingestion that uses the template.
C16_TemplateDeleteGuard ==
    \A x \in summaries : \E p \in templates : p.id = x.prompt_template_id

\* The step is the return of form handler h.
IsFormReturn(h) == tp'[h] # tp[h] /\ tp'[h].pc = "idle"

\* C17: no two prompt templates have the same name; a form handler that
\* returns after a request to create a template with a name that a template
\* has, or to give a template the name of another one, has flashed a message
\* and left the table as it was, whether the name was taken when the
\* handler checked it or only when it wrote the row.
C17_TemplateNameUnique ==
    [][/\ \A p \in templates', q \in templates' : p.name = q.name => p = q
       /\ \A h \in FormHandlers :
             /\ (IsFormReturn(h) /\ tp'[h].flash \in {"exists", "error"})
                   => templates' = templates
             /\ (/\ IsFormReturn(h)
                 /\ tp[h].pc = "checked"
                 /\ NameExists(templates, tp[h].name, tp[h].id))
                   => /\ templates' = templates
                      /\ tp'[h].flash \in {"exists", "error"}
             /\ (IsFormReturn(h) /\ tp[h].pc = "idle")
                   => /\ templates' = templates
                      /\ tp'[h].flash = "exists"
      ]_vars

\* C17 witness: a handler that had found the name free was turned down by
\* the unique constraint, because another handler had taken the name in
\* between; two templates exist.
C17_Witness ==
    /\ \E h \in FormHandlers : tp[h].flash = "error"
    /\ \E g \in FormHandlers : tp[g].flash \in {"created", "updated"}
    /\ Cardinality(templates) = 2
    /\ Cardinality({p.name : p \in templates}) = 2

\* The step serves a request to / by client c: the limiter enters it in the
\* history of the window.
IsServedIndex(c) == limiter'.inwin[c] = limiter.inwin[c] + 1

\* The step answers a request to / by client c with the rate-limit response.
IsRefusedIndex(c) == IsResponse("index") /\ resp'.client = c /\ resp'.status = 429

\* C19: per client address at most UploadLimit requests to route /, GET and
\* POST together, are served within one hour of the limiter; a request is
\* served only while fewer than UploadLimit were served to the address in
\* that hour, whatever the other addresses did; a request that is answered
\* with 429 comes after UploadLimit served requests of the hour and changes
\* neither the tables, the upload directory, the handlers (no file saved, no
\* row created, no extraction or summarization started) nor the session.
C19_RateLimitTenPerHour ==
    [][\A c \in Clients :
          /\ limiter'.inwin[c] <= UploadLimit
          /\ IsServedIndex(c) => limiter.inwin[c] < UploadLimit
          /\ IsRefusedIndex(c) =>
                /\ limiter.inwin[c] = UploadLimit
                /\ limiter'.inwin = limiter.inwin
                /\ UNCHANGED <<uploads, summaries, disk, nextId, req, lookup,
                               cookie, templates>>
      ]_vars

\* C19 witness: a client has just been answered with 429 after UploadLimit
\* served requests, one of which ingested a file, while another address is
\* within its limit and has been served.
C19_Witness ==
    /\ resp.route = "index"
    /\ resp.status = 429
    /\ limiter.inwin[resp.client] = UploadLimit
    /\ \E u \in uploads : u.session_id = cookie[resp.client].session_id
    /\ \E d \in Clients : d # resp.client /\ limiter.inwin[d] \in 1..(UploadLimit - 1)

\* C20: a cleanup run that completes deletes the rows of the uploads older
\* than the cutoff whose files are already missing as it deletes the others,
\* and counts them as deleted; the bytes it reports as freed are those of the
\* files that were there and are gone, so a missing file adds nothing; when
\* every file was already missing the run frees 0 bytes and leaves the
\* directory as it was.
C20_CleanupToleratesMissingFiles ==
    [][(IsCleanupStep /\ cl'.ok) =>
          LET old     == {u \in uploads : u.upload_date < CutoffDate(now)}
              missing == {u \in old : disk[u.file_path] = NoFile}
          IN /\ \A u \in missing : u \notin uploads' /\ disk'[u.file_path] = NoFile
             /\ \A u \in missing : SummariesOf(summaries', u.id) = {}
             /\ cl'.deleted = Cardinality(old)
             /\ cl'.freed = SumSizes(disk, {p \in Paths : disk[p] # NoFile
                                                         /\ disk'[p] = NoFile})
             /\ missing = old => (cl'.freed = 0 /\ disk' = disk)
      ]_vars

\* C20 witness: a run completed that deleted uploads and freed nothing: the
\* files of the uploads it deleted were all missing.
C20_Witness ==
    /\ cl.ok
    /\ cl.deleted > 0
    /\ cl.freed = 0
    /\ uploads = {}

\* The uploads that exist: the committed rows and the rows that handlers have
\* flushed.
AllUploads == uploads \cup UNION {req[r].pu : r \in Handlers}

\* C21: no two uploads, committed or flushed, of one batch or of different
\* requests, share a file_path; a file save never writes the path that backs
\* another upload.
C21_SavedFilesNeverOverwrite ==
    \A u \in AllUploads, v \in AllUploads : u.file_path = v.file_path => u = v

\* Handler r ends its request in this step through the except branch.
IsFailStep(r) == req[r].outcome = "running" /\ req'[r].outcome = "failed"

\* C22: a batch that fails, at extraction or at summarization, ends with all
\* its rows rolled back and with one flashed error message that is the same
\* for every failing stage and quotes nothing of the exception; the stage
\* shows only in the calls logged.
C22_FailureIsGeneric ==
    [][\A r \in Handlers :
          IsFailStep(r) =>
             /\ uploads' = uploads
             /\ summaries' = summaries
             /\ req'[r].pu = {} /\ req'[r].ps = {}
             /\ req'[r].flash = <<"Error processing files">>
             /\ req'[r].log # <<>>
      ]_vars

\* The uploads with digest h that have a summary of template t among the
\* rows U and S.
Summarized(U, S, h, t) ==
    {x \in U : /\ x.file_hash = h
               /\ \E y \in S : y.upload_id = x.id /\ y.prompt_template_id = t}

\* C23: no single-flight.  The cache decision of a handler rests on the
\* committed rows and its own rows only: when none of them is a summarized
\* upload of the digest and the template, the iteration takes the miss path
\* (is_cached = FALSE, extraction and summarization follow) whatever another
\* handler has in flight for the same content, and the commit stores the
\* rows as they were flushed.
C23_NoSingleFlight ==
    [][\A r \in Handlers :
          /\ IsProcessStep(r) =>
                LET u == NewRow(r)
                IN Summarized(uploads \cup req[r].pu, summaries \cup req[r].ps,
                              u.file_hash, req[r].tpl) = {}
                      => /\ ~u.is_cached
                         /\ req'[r].pc = "extract"
          /\ (IsProcessStep(r) /\ NewRow(r).is_cached) =>
                Summarized(uploads \cup req[r].pu, summaries \cup req[r].ps,
                           NewRow(r).file_hash, req[r].tpl) # {}
          /\ (req[r].outcome = "running" /\ req'[r].outcome = "ok") =>
                /\ uploads' = uploads \cup req[r].pu
                /\ summaries' = summaries \cup req[r].ps
      ]_vars

\* C23 witness: two committed uploads of the same content by two sessions,
\* both with is_cached = FALSE and each with its own summary of the same
\* template, both returned by the summarizer: the two requests overlapped.
C23_Witness ==
    \E u \in uploads, v \in uploads :
        /\ u.id # v.id
        /\ u.file_hash = v.file_hash
        /\ u.session_id # v.session_id
        /\ ~u.is_cached /\ ~v.is_cached
        /\ \E x \in SummariesOf(summaries, u.id), y \in SummariesOf(summaries, v.id) :
              /\ x.prompt_template_id = y.prompt_template_id
              /\ x.summary_text = y.summary_text
        /\ \A r \in Handlers : req[r].outcome = "ok"

\* C24: every committed upload has exactly one summary, after any sequence
\* of committed batches, failed batches, cleanup runs and restarts.
C24_ExactlyOneSummary ==
    \A u \in uploads : Cardinality(SummariesOf(summaries, u.id)) = 1

\* C24 witness: a cleanup run has deleted uploads and an upload served from
\* the cache is left, with its one summary.
C24_Witness ==
    /\ cl.ok
    /\ cl.deleted > 0
    /\ \E u \in uploads : u.is_cached /\ Cardinality(SummariesOf(summaries, u.id)) = 1

\* C25: the cache lives as long as the uploads do.  An iteration is served
\* from the cache exactly when an upload the handler sees, served from the
\* cache itself or not, has the digest and a summary of the template, and
\* the text copied is the text of such a summary; otherwise it is a miss
\* that goes on to extraction and summarization.  A cleanup run that
\* completes takes from the cache exactly the uploads it deletes.
C25_CacheLifetimeFollowsRetention ==
    [][/\ \A r \in Handlers :
             IsProcessStep(r) =>
                LET u   == NewRow(r)
                    src == Summarized(uploads \cup req[r].pu, summaries \cup req[r].ps,
                                      u.file_hash, req[r].tpl)
                IN IF src # {}
                   THEN /\ u.is_cached
                        /\ req'[r].pc = "loop"
                        /\ \E x \in src, y \in summaries \cup req[r].ps :
                              /\ y.upload_id = x.id
                              /\ \A z \in SummariesOf(req'[r].ps, u.id) :
                                    z.summary_text = y.summary_text
                   ELSE /\ ~u.is_cached
                        /\ req'[r].pc = "extract"
       /\ (IsCleanupStep /\ cl'.ok) =>
             \A c \in Contents, t \in Templates :
                Summarized(uploads', summaries', Digest(c), t)
                   = Summarized(uploads, summaries, Digest(c), t)
                        \ {x \in uploads : x.upload_date < CutoffDate(now)}
      ]_vars

\* C25 witness: cleanup has deleted the only upload of content "a", and "a"
\* has been ingested again with the same template: the new upload was not
\* served from the cache and has the summary of a new summarizer call.
C25_Witness ==
    /\ cl.ok
    /\ cl.deleted > 0
    /\ PriorUpload \notin uploads
    /\ \E u \in uploads :
          /\ u.file_hash = PriorUpload.file_hash
          /\ ~u.is_cached
          /\ \E y \in SummariesOf(summaries, u.id) : y.prompt_template_id = 1

\* C26: within one submission, a file whose digest and template are those
\* of an earlier file of the same submission that has its summary is served
\* from the cache out of the rows the submission has not committed yet: its
\* upload has is_cached = TRUE, its summary text is the text of a summary the
\* handler sees, no extraction or summarization is called for it, and so the
\* rows of one submission hold at most one upload per content that was not
\* served from the cache.
C26_IntraBatchCacheHit ==
    [][\A r \in Handlers :
          /\ IsProcessStep(r) =>
                LET u == NewRow(r)
                IN Summarized(req[r].pu, req[r].ps, u.file_hash, req[r].tpl) # {}
                      => /\ u.is_cached
                         /\ req'[r].pc = "loop"
                         /\ req'[r].log = req[r].log
                         /\ \A z \in SummariesOf(req'[r].ps, u.id) :
                               \E y \in summaries \cup req[r].ps :
                                  z.summary_text = y.summary_text
          /\ \A u \in req'[r].pu, v \in req'[r].pu :
                (u.file_hash = v.file_hash /\ ~u.is_cached /\ ~v.is_cached) => u = v
      ]_vars

\* C26 witness: one submission created two uploads of the same content and
\* committed them: the first is not served from the cache, the second is.
C26_Witness ==
    \E r \in Handlers :
        /\ req[r].outcome = "ok"
        /\ Cardinality(req[r].created) = 2
        /\ \E u \in uploads, v \in uploads :
              /\ req[r].created = {u.id, v.id}
              /\ u.id < v.id
              /\ u.file_hash = v.file_hash
              /\ ~u.is_cached
              /\ v.is_cached

\* C27: editing a template does not invalidate the cache.  A step that
\* changes the template table changes no upload and no summary, and an
\* iteration for which the handler sees a summarized upload of the digest
\* and the template id is served from the cache whatever the prompt text of
\* the template is now: no call is made and the text copied is the text of
\* the summary that exists.
C27_EditKeepsCache ==
    [][/\ templates' # templates => UNCHANGED <<uploads, summaries>>
       /\ \A r \in Handlers :
             IsProcessStep(r) =>
                LET u   == NewRow(r)
                    src == Summarized(uploads \cup req[r].pu, summaries \cup req[r].ps,
                                      u.file_hash, req[r].tpl)
                IN src # {} =>
                      /\ u.is_cached
                      /\ req'[r].log = req[r].log
                      /\ req'[r].pc = "loop"
                      /\ \A z \in SummariesOf(req'[r].ps, u.id) :
                            /\ z.prompt_template_id = req[r].tpl
                            /\ \E x \in src :
                                  \E y \in SummariesOf(summaries \cup req[r].ps, x.id) :
                                     z.summary_text = y.summary_text
      ]_vars

\* C27 witness: a handler that loaded the edited prompt text of its template
\* has served a file from the cache with a summary made with the old text.
C27_Witness ==
    \E r \in Handlers :
        /\ req[r].pc = "loop"
        /\ req[r].prompt # PromptText(1)
        /\ \E u \in req[r].pu :
              /\ u.is_cached
              /\ \E z \in SummariesOf(req[r].ps, u.id) :
                    z.summary_text = SummaryText(Extracted("a").text, PromptText(1))

\* The paths that the upload rows of U name.
PathsOf(U) == {u.file_path : u \in U}

\* C28: rollback does not undo file saves.  When a batch fails, the files it
\* saved stay on storage as they are and no upload record names their
\* paths; a file that no upload record names is never removed, by cleanup
\* or by anything else, and cleanup removes only files that upload records
\* name.
C28_RollbackKeepsFiles ==
    [][/\ \A r \in Handlers :
             IsFailStep(r) =>
                /\ disk' = disk
                /\ \A u \in req[r].pu :
                      /\ disk'[u.file_path] # NoFile
                      /\ u.file_path \notin PathsOf(uploads')
       /\ \A p \in Paths :
             (disk[p] # NoFile /\ p \notin PathsOf(AllUploads)) => disk'[p] # NoFile
       /\ IsCleanupStep =>
             \A p \in Paths :
                (disk[p] # NoFile /\ disk'[p] = NoFile) => p \in PathsOf(uploads)
      ]_vars

\* The step is an extraction or a summarization call of handler r that
\* raises.
IsCallFailure(r) ==
    /\ req[r].pc \in {"extract", "summarize"}
    /\ alive'
    /\ req'[r] # req[r]
    /\ ~(req[r].pc = "extract" /\ req'[r].pc = "summarize")
    /\ ~(req[r].pc = "summarize" /\ \E s \in req'[r].ps : s.upload_id = req[r].cur)

\* C29: a failure stops the batch at the failing file.  The call that raises
\* ends the request: the files still to come are not read (nothing is
\* saved, no id is taken, no call follows), the calls made so far are
\* logged once each and nothing compensates them, the rows of the earlier
\* files are discarded with the rest, so the committed rows are what they
\* were and a lookup of the content of an earlier file that had missed the
\* cache finds nothing.
C29_FailureStopsBatch ==
    [][\A r \in Handlers :
          IsCallFailure(r) =>
             /\ req'[r].outcome = "failed"
             /\ req'[r].pc = "idle"
             /\ req'[r].todo = 0
             /\ req'[r].pu = {} /\ req'[r].ps = {}
             /\ disk' = disk
             /\ nextId' = nextId
             /\ req'[r].log = Append(req[r].log, <<req[r].pc, req[r].cur>>)
             /\ \A u \in req[r].pu :
                   Len(SelectSeq(req'[r].log, LAMBDA e : e = <<"summarize", u.id>>)) <= 1
             /\ uploads' = uploads
             /\ summaries' = summaries
             /\ \A u \in req[r].pu :
                   ~u.is_cached =>
                      check_cache(uploads', summaries', u.file_hash, req[r].tpl) = {0}
      ]_vars

\* C29 witness: the second file of a submission failed after the first had
\* been extracted and summarized: three calls were made, the request ended
\* as failed and no row of the submission is in the tables.
C29_Witness ==
    \E r \in Handlers :
        /\ req[r].outcome = "failed"
        /\ req[r].created = {1, 2}
        /\ req[r].log = <<<<"extract", 1>>, <<"summarize", 1>>, <<"extract", 2>>>>
        /\ uploads = {}
        /\ summaries = {}

\* C30: results and download are not scoped by session.  The results page
\* shows every upload whose id was asked for and the download delivers the
\* summary asked for with its upload, whichever client asks and whichever
\* session owns the upload, and neither reads or changes the session; the
\* my-uploads page and the list on the index page show the uploads of the
\* client's session only.
C30_ResultsNotScopedBySession ==
    [][/\ (IsResponse("results") /\ resp'.arg # {}) =>
             /\ resp'.status = 200
             /\ resp'.shown = resp'.arg \cap UploadIds(uploads)
             /\ cookie' = cookie
       /\ (IsResponse("download") /\ \E x \in summaries : x.id = resp'.arg) =>
             /\ resp'.status = 200
             /\ resp'.shown = {x.upload_id : x \in {y \in summaries : y.id = resp'.arg}}
             /\ cookie' = cookie
       /\ (IsResponse("my_uploads") \/ (IsResponse("index") /\ resp'.status = 200)) =>
             resp'.shown = {u.id : u \in {v \in uploads :
                               v.session_id = cookie'[resp'.client].session_id}}
      ]_vars

\* C30 witness: the results page has shown a client an upload of another
\* session, next to one of its own.
C30_Witness ==
    /\ resp.route = "results"
    /\ resp.status = 200
    /\ \E u \in uploads :
          /\ u.id \in resp.shown
          /\ u.session_id # cookie[resp.client].session_id
    /\ \E u \in uploads :
          /\ u.id \in resp.shown
          /\ u.session_id = cookie[resp.client].session_id

====
